---------------------------- MODULE Spec2Model ----------------------------
(***************************************************************************)
(* Model of telecom-tower/grpc-renderer: the command dispatcher (Draw),   *)
(* the layer store and its primitives, the frame builder (getLayersSet,   *)
(* preparedLayer) and the render loop with its rolling slots.             *)
(*                                                                         *)
(* Canvases are modelled along the X axis only (the rolling logic and the  *)
(* frame builder depend on Bounds().Min.X / Max.X); the pixel content of a *)
(* canvas is represented by the set of streams whose primitives painted   *)
(* it.  The write-only `dirty` flag of a layer is left out.               *)
(* Images are values: a primitive works on the canvas it read when it      *)
(* started and writes it back when it returns, as the code's local         *)
(* variable `canvas` does.                                                 *)
(***************************************************************************)
EXTENDS Integers, Sequences, FiniteSets, TLC

(***************************************************************************)
(* Bounds. maxLayers and displayWidth are the program's constants          *)
(* (8 and 128 in the source) scaled down to keep the state space finite.   *)
(***************************************************************************)
maxLayers == 2
displayWidth == 2
NumStreams == 2
MaxReqs == 2

VARIABLES
    layers,            \* tower.layers: layer index -> layer
    activeLayers,      \* tower.activeLayers
    pc,                \* per stream: where its Draw handler stands
    status,            \* per stream: Draw's local `status`
    nreq,              \* requests received so far, over all streams
    cur,               \* per stream: the request its primitive is running on
    canvas,            \* per stream: the primitive's local `canvas`
    frame,             \* per stream: the layersSet built by getLayersSet
    response,          \* per stream: the DrawResponse messages sent
    sendq,             \* streams blocked in `tower.lsc <- ...`, oldest first
    objs,              \* the prepared layers (*layer) the loop holds, by identity
    currentSet,        \* loop: currentSet, a list of prepared-layer identities
    rollingLayers,     \* loop: slot -> [queue, position]
    hasRollingLayers,  \* loop: hasRollingLayers
    panicked,          \* where a goroutine panicked (the process is gone), or NoPanic
    submitted,         \* history: streams in the order they started their send
    received,          \* history: streams in the order the loop received their frame
    renders,           \* history: renders of the current frame so far (capped at 2)
    shown,             \* history: the layersSet handed to the last renderLed
    skipped,           \* history: streams that had a request skipped
    invalid,           \* history: streams that had an invalid request dispatched
    hwError,           \* history: the last iteration's tower.ws.Render() returned an error
    serving,           \* Serve: grpcServer.Serve(listener) has not returned
    result,            \* renderLed: the composite, <<x, y>> -> colour word
    leds,              \* renderLed: tower.ws.Leds(0), strip index -> colour word
    writes,            \* history: strip index -> times renderLed's loop wrote it
    mapX,              \* renderLed: x of the strip loop (displayWidth when it is over)
    mapY,              \* renderLed: y of the strip loop
    raw,               \* banner: the columns of the store layer's image
    steps,             \* history: the loop's ticks since the banner's frame
    bg,                \* combineOver: bg.RGBA()
    fg,                \* combineOver: fg.RGBA()
    blend              \* combineOver: what was returned, with its intermediate sums

vars == <<layers, activeLayers, pc, status, nreq, cur, canvas, frame, response,
          sendq, objs, currentSet, rollingLayers, hasRollingLayers, panicked,
          submitted, received, renders, shown, skipped, invalid, hwError, serving,
          result, leds, writes, mapX, mapY, raw, steps, bg, fg, blend>>

storeVars == <<layers, activeLayers>>
loopVars == <<objs, currentSet, rollingLayers, hasRollingLayers, received, renders, shown,
              hwError>>
mapVars == <<result, leds, writes, mapX, mapY>>
bannerVars == <<raw, steps>>
blendVars == <<bg, fg, blend>>

(* the display's height: a constant of the program *)
displayHeight == 8

Streams == 1..NumStreams
Layers == 0..(maxLayers - 1)
Pixels == (0..(displayWidth - 1)) \X (0..(displayHeight - 1))
StripIndices == 0..(displayWidth * displayHeight - 1)

NoError == ""
NoPanic == "none"
InDispatcher == "dispatcher"
InFrameBuilder == "frame builder"
InRenderLoop == "render loop"
UnknownFont == "Unknown font"

RollingStop == "Stop"
RollingStart == "Start"
RollingContinue == "Continue"
RollingNext == "Next"

Min2(a, b) == IF a < b THEN a ELSE b
Max2(a, b) == IF a > b THEN a ELSE b

(* Go's integer division truncates toward zero. *)
GoDiv(a, b) ==
    IF (a >= 0 /\ b > 0) \/ (a <= 0 /\ b < 0) THEN
        (IF a >= 0 THEN a ELSE -a) \div (IF b >= 0 THEN b ELSE -b)
    ELSE
        -((IF a >= 0 THEN a ELSE -a) \div (IF b >= 0 THEN b ELSE -b))

(***************************************************************************)
(* image.Rectangle along X.                                                *)
(***************************************************************************)
Rect(x0, x1) == [min |-> Min2(x0, x1), max |-> Max2(x0, x1)]
RectEmpty(r) == r.min >= r.max
RectUnion(r, s) ==
    IF RectEmpty(r) THEN s
    ELSE IF RectEmpty(s) THEN r
    ELSE [min |-> Min2(r.min, s.min), max |-> Max2(r.max, s.max)]
RectEq(r, s) == r = s \/ (RectEmpty(r) /\ RectEmpty(s))

NewRGBA(r) == [min |-> r.min, max |-> r.max, painted |-> {}]
Bounds(img) == [min |-> img.min, max |-> img.max]
EmptyImage == NewRGBA(Rect(0, 0))

resizeImage(src, rect) ==
    LET bounds == Bounds(src)
        newBounds == RectUnion(bounds, rect)
    IN  IF ~RectEq(newBounds, bounds)
        THEN [min |-> newBounds.min, max |-> newBounds.max, painted |-> src.painted]
        ELSE src

(* paint on at least one pixel of img by stream s; painting no pixel leaves it *)
paint(img, rect, s) ==
    IF RectEmpty(rect) \/ RectEmpty(Bounds(img)) THEN img
    ELSE [img EXCEPT !.painted = @ \cup {s}]

(***************************************************************************)
(* The layer store.                                                        *)
(***************************************************************************)
FullAlpha == 65535

NewLayer ==
    [image |-> EmptyImage, origin |-> 0, alpha |-> FullAlpha, id |-> 0,
     rolling |-> [mode |-> RollingStop, entry |-> 0, separator |-> 0]]

(* faulty variant of resetLayer: only the image is replaced *)
resetLayerImageOnly(l) == [l EXCEPT !.image = EmptyImage]

resetLayer(l) ==
    [l EXCEPT !.image = EmptyImage, !.origin = 0, !.alpha = FullAlpha,
              !.rolling = [mode |-> RollingStop, entry |-> 0, separator |-> 0]]

(***************************************************************************)
(* Requests: the DrawRequest variants with the values the streams send.    *)
(***************************************************************************)
Req(kind, layer, x, w, n, font, mode, entry, separator) ==
    [kind |-> kind, layer |-> layer, x |-> x, w |-> w, n |-> n, font |-> font,
     mode |-> mode, entry |-> entry, separator |-> separator]

NoReq == Req("none", 0, 0, 0, 0, "", RollingStop, 0, 0)

Requests ==
    { Req("Fill", 0, 0, 0, 0, "", RollingStop, 0, 0),
      Req("Init", 0, 0, 0, 0, "", RollingStop, 0, 0),
      Req("Clear", 1, 0, 0, 0, "", RollingStop, 0, 0),
      Req("SetLayerAlpha", 0, 0, 0, 32768, "", RollingStop, 0, 0),
      Req("SetPixels", 0, 0, 1, 0, "", RollingStop, 0, 0),
      Req("SetPixels", maxLayers, 0, 1, 0, "", RollingStop, 0, 0),
      Req("DrawBitmap", 0, 0, 1, 0, "", RollingStop, 0, 0),
      Req("DrawBitmap", 0, 0, 1, 2, "", RollingStop, 0, 0),
      Req("WriteText", 1, 0, 1, 0, "6x8", RollingStop, 0, 0),
      Req("WriteText", 0, 0, 1, 0, "9x9", RollingStop, 0, 0),
      Req("AutoRoll", 1, 0, 0, 0, "", RollingStart, 0, 1),
      Req("AutoRoll", 1, 0, 0, 0, "", RollingContinue, 0, 1) }

(* a request the interface's constraints rule out (Layer in [0, N), and    *)
(* len(colors) = width*height); recorded in the history variable `invalid` *)
Invalid(r) ==
    \/ (r.kind \notin {"Init", "Fill"} /\ r.layer \notin Layers)
    \/ (r.kind = "DrawBitmap" /\ r.n # r.w)

(* the layers a request indexes tower.layers / tower.activeLayers with *)
Indexed(r) ==
    CASE r.kind = "Init" -> {}
      [] r.kind = "Fill" -> {}
      [] OTHER -> {r.layer}

IndexOutOfRange(r) == \E l \in Indexed(r) : l \notin Layers

FontWidth(font) == IF font = "8x8" THEN 8 ELSE IF font = "6x8" THEN 6 ELSE 0
KnownFont(font) == font = "8x8" \/ font = "6x8"

(* the rectangle a drawing primitive resizes its canvas to and paints in *)
TargetRect(r) ==
    CASE r.kind = "SetPixels" -> Rect(r.x, r.x + 1)
      [] r.kind = "DrawRectangle" -> Rect(r.x, r.x + r.w)
      [] r.kind = "DrawBitmap" -> Rect(r.x, r.x + r.w)
      [] r.kind = "WriteText" -> Rect(r.x, r.x + FontWidth(r.font) * r.w)
      [] OTHER -> Rect(0, 0)

UsesCanvas(r) == r.kind \in {"SetPixels", "DrawRectangle", "DrawBitmap", "WriteText"}


(***************************************************************************)
(* The primitives. Each is entered (its index expressions are evaluated,   *)
(* the layer is marked active and the local `canvas` is read) and later    *)
(* returns (the rest of its body); other goroutines may run in between.    *)
(***************************************************************************)
init(L) == [l \in Layers |-> resetLayer(L[l])]

clear(L, r) == [L EXCEPT ![r.layer] = resetLayer(@)]

setPixels(L, r, cv, s) ==
    [L EXCEPT ![r.layer].image = paint(resizeImage(cv, TargetRect(r)), TargetRect(r), s)]

drawRectangle(L, r, cv, s) ==
    [L EXCEPT ![r.layer].image = paint(resizeImage(cv, TargetRect(r)), TargetRect(r), s)]

(* Colors[i] is read for every pixel of the bitmap's rectangle *)
BitmapShort(r) == r.kind = "DrawBitmap" /\ r.n < r.w

drawBitmap(L, r, cv, s) ==
    [L EXCEPT ![r.layer].image = paint(resizeImage(cv, TargetRect(r)), TargetRect(r), s)]

writeTextStatus(r) == IF KnownFont(r.font) THEN NoError ELSE UnknownFont

writeText(L, r, cv, s) ==
    IF writeTextStatus(r) # NoError THEN L
    ELSE [L EXCEPT ![r.layer].image =
              paint(resizeImage(cv, TargetRect(r)), TargetRect(r), s)]

setLayerOrigin(L, r) ==
    [L EXCEPT ![r.layer].origin = r.x,
              ![r.layer].image = resizeImage(@, Rect(r.x, r.x + displayWidth))]

setLayerAlpha(L, r) == [L EXCEPT ![r.layer].alpha = r.n]

autoRoll(L, r) ==
    [L EXCEPT ![r.layer].rolling =
        [mode |-> r.mode, entry |-> r.entry, separator |-> r.separator]]

(* the request types Draw's type switch has a case for *)
Dispatched(r) ==
    r.kind \in {"Init", "Clear", "SetPixels", "DrawRectangle", "DrawBitmap",
                "WriteText", "SetLayerOrigin", "SetLayerAlpha", "AutoRoll"}

(* faulty variant of Latched: the switch runs whatever the status *)
LatchedNever(st) == FALSE

(* `if status == nil` around the type switch *)
Latched(st) == st # NoError

(* faulty variant of ShouldSubmit: the frame is sent whatever the status *)
ShouldSubmitAlways(st) == TRUE

(* `if status == nil` before the frame is sent at end of stream *)
ShouldSubmit(st) == st = NoError

(***************************************************************************)
(* Draw: one handler per stream.                                           *)
(***************************************************************************)
(* stream.Recv() returns a request, one of those in R, and the switch runs *)
RecvRequestOf(s, R) ==
    /\ panicked = NoPanic
    /\ pc[s] = "recv"
    /\ nreq < MaxReqs
    /\ nreq' = nreq + 1
    /\ \E r \in R :
        IF Latched(status[s]) THEN
            /\ skipped' = skipped \cup {s}
            /\ UNCHANGED <<pc, cur, activeLayers, canvas, panicked, invalid>>
        ELSE IF ~Dispatched(r) THEN
            UNCHANGED <<pc, cur, activeLayers, canvas, panicked, invalid, skipped>>
        ELSE
            /\ pc' = [pc EXCEPT ![s] = "prim"]
            /\ cur' = [cur EXCEPT ![s] = r]
            /\ invalid' = IF Invalid(r) THEN invalid \cup {s} ELSE invalid
            /\ UNCHANGED skipped
            /\ IF IndexOutOfRange(r) THEN
                   /\ panicked' = InDispatcher
                   /\ UNCHANGED <<activeLayers, canvas>>
               ELSE
                   /\ activeLayers' =
                          IF r.kind \in {"Init", "Clear"} THEN activeLayers
                          ELSE [activeLayers EXCEPT ![r.layer] = TRUE]
                   /\ canvas' = [canvas EXCEPT ![s] =
                          IF UsesCanvas(r) THEN layers[r.layer].image ELSE EmptyImage]
                   /\ UNCHANGED panicked
    /\ UNCHANGED <<layers, status, frame, response, sendq, submitted>>
    /\ UNCHANGED loopVars
    /\ UNCHANGED <<serving, mapVars, bannerVars, blendVars>>

RecvRequest(s) == RecvRequestOf(s, Requests)

PrimReturn(s) ==
    /\ panicked = NoPanic
    /\ pc[s] = "prim"
    /\ LET r == cur[s] cv == canvas[s] IN
        IF BitmapShort(r) THEN
            /\ panicked' = InDispatcher
            /\ UNCHANGED <<layers, activeLayers, pc, status, cur, canvas>>
        ELSE
            /\ layers' =
                 CASE r.kind = "Init" -> init(layers)
                   [] r.kind = "Clear" -> clear(layers, r)
                   [] r.kind = "SetPixels" -> setPixels(layers, r, cv, s)
                   [] r.kind = "DrawRectangle" -> drawRectangle(layers, r, cv, s)
                   [] r.kind = "DrawBitmap" -> drawBitmap(layers, r, cv, s)
                   [] r.kind = "WriteText" -> writeText(layers, r, cv, s)
                   [] r.kind = "SetLayerOrigin" -> setLayerOrigin(layers, r)
                   [] r.kind = "SetLayerAlpha" -> setLayerAlpha(layers, r)
                   [] r.kind = "AutoRoll" -> autoRoll(layers, r)
            /\ activeLayers' =
                 CASE r.kind = "Init" -> [l \in Layers |-> FALSE]
                   [] r.kind = "Clear" -> [activeLayers EXCEPT ![r.layer] = FALSE]
                   [] OTHER -> activeLayers
            /\ status' = [status EXCEPT ![s] =
                 IF r.kind = "WriteText" THEN writeTextStatus(r) ELSE NoError]
            /\ pc' = [pc EXCEPT ![s] = "recv"]
            /\ cur' = [cur EXCEPT ![s] = NoReq]
            /\ canvas' = [canvas EXCEPT ![s] = EmptyImage]
            /\ UNCHANGED panicked
    /\ UNCHANGED <<nreq, frame, response, sendq, submitted, skipped, invalid>>
    /\ UNCHANGED loopVars
    /\ UNCHANGED <<serving, mapVars, bannerVars, blendVars>>

(* faulty variant of RecvError: a response is sent before the handler returns *)
RecvErrorResponds(s) ==
    /\ panicked = NoPanic
    /\ pc[s] = "recv"
    /\ pc' = [pc EXCEPT ![s] = "aborted"]
    /\ response' = [response EXCEPT ![s] = Append(@, status[s])]
    /\ UNCHANGED <<layers, activeLayers, status, nreq, cur, canvas, frame,
                   sendq, panicked, submitted, skipped, invalid>>
    /\ UNCHANGED loopVars
    /\ UNCHANGED <<serving, mapVars, bannerVars, blendVars>>

(* stream.Recv() returns another error: `return err` *)
RecvError(s) ==
    /\ panicked = NoPanic
    /\ pc[s] = "recv"
    /\ pc' = [pc EXCEPT ![s] = "aborted"]
    /\ UNCHANGED <<layers, activeLayers, status, nreq, cur, canvas, frame, response,
                   sendq, panicked, submitted, skipped, invalid>>
    /\ UNCHANGED loopVars
    /\ UNCHANGED <<serving, mapVars, bannerVars, blendVars>>


(***************************************************************************)
(* The frame builder.                                                      *)
(***************************************************************************)
(* `nBody := (displayWidth + wSep - 1) / (wBody + wSep)` divides by zero *)
preparedLayerPanics(l) ==
    /\ l.rolling.mode # RollingStop
    /\ (l.image.max - l.rolling.entry - l.rolling.separator) + l.rolling.separator = 0

(* the extended canvas of a rolling layer: image.Rect(0, 0, wTot, displayHeight) *)
ExtendedWidth(l) ==
    LET wEntry == l.rolling.entry
        wSep == l.rolling.separator
        wBody == l.image.max - wEntry - wSep
        nBody == GoDiv(displayWidth + wSep - 1, wBody + wSep)
    IN  2 * (displayWidth - 1) + wEntry + (nBody + 1) * (wBody + wSep)

(* faulty variant of preparedLayer: the prepared layer does not carry the rolling mode *)
preparedLayerStopped(l, i) ==
    [id |-> 0,
     from |-> i,
     own |-> TRUE,
     origin |-> l.origin,
     rolling |-> [mode |-> RollingStop, entry |-> l.rolling.entry,
                  separator |-> l.rolling.separator, last |-> 0],
     image |-> [min |-> l.image.min, max |-> l.image.max, painted |-> l.image.painted]]

(* faulty variant of preparedLayer: the prepared layer keeps the store layer's image *)
preparedLayerShared(l, i) ==
    [id |-> 0,
     from |-> i,
     own |-> FALSE,
     origin |-> IF l.rolling.mode = RollingStop THEN l.origin ELSE 0,
     rolling |-> [mode |-> l.rolling.mode, entry |-> l.rolling.entry,
                  separator |-> l.rolling.separator, last |-> 0],
     image |-> IF l.rolling.mode = RollingStop THEN l.image
               ELSE [min |-> Min2(0, ExtendedWidth(l)), max |-> Max2(0, ExtendedWidth(l)),
                     painted |-> l.image.painted]]

(* A prepared layer. `id` is not among the fields the composite literal    *)
(* sets, so it is 0; `last` likewise. `from` records the store layer the   *)
(* prepared layer was built from; `own` says that its image is a fresh     *)
(* allocation (image.NewRGBA) and not the store layer's.                   *)
preparedLayer(l, i) ==
    LET img == [min |-> l.image.min, max |-> l.image.max, painted |-> l.image.painted]
        ext == Rect(0, ExtendedWidth(l))
    IN  [id |-> 0,
         from |-> i,
         own |-> TRUE,
         origin |-> IF l.rolling.mode = RollingStop THEN l.origin ELSE 0,
         rolling |-> [mode |-> l.rolling.mode, entry |-> l.rolling.entry,
                      separator |-> l.rolling.separator, last |-> 0],
         image |-> IF l.rolling.mode = RollingStop THEN img
                   ELSE [min |-> ext.min, max |-> ext.max, painted |-> img.painted]]

RECURSIVE getLayersSetFrom(_, _, _)
getLayersSetFrom(L, A, i) ==
    IF i >= maxLayers THEN <<>>
    ELSE IF A[i] THEN <<preparedLayer(L[i], i)>> \o getLayersSetFrom(L, A, i + 1)
    ELSE getLayersSetFrom(L, A, i + 1)

getLayersSet(L, A) == getLayersSetFrom(L, A, 0)

(* stream.Recv() returns io.EOF: with no status latched getLayersSet runs    *)
(* and the send on tower.lsc starts; otherwise the response is next.       *)
RecvEOF(s) ==
    /\ panicked = NoPanic
    /\ pc[s] = "recv"
    /\ IF ~ShouldSubmit(status[s]) THEN
           /\ pc' = [pc EXCEPT ![s] = "respond"]
           /\ UNCHANGED <<layers, frame, sendq, submitted, panicked>>
       ELSE IF \E i \in Layers : activeLayers[i] /\ preparedLayerPanics(layers[i]) THEN
           /\ panicked' = InFrameBuilder
           /\ UNCHANGED <<layers, pc, frame, sendq, submitted>>
       ELSE
           /\ layers' = [i \in Layers |->
                  IF activeLayers[i] THEN [layers[i] EXCEPT !.id = i] ELSE layers[i]]
           /\ frame' = [frame EXCEPT ![s] = getLayersSet(layers, activeLayers)]
           /\ pc' = [pc EXCEPT ![s] = "send"]
           /\ sendq' = Append(sendq, s)
           /\ submitted' = Append(submitted, s)
           /\ UNCHANGED panicked
    /\ UNCHANGED <<activeLayers, status, nreq, cur, canvas, response, skipped, invalid>>
    /\ UNCHANGED loopVars
    /\ UNCHANGED <<serving, mapVars, bannerVars, blendVars>>

(* stream.SendAndClose(&pb.DrawResponse{Message: msg}) *)
Respond(s) ==
    /\ panicked = NoPanic
    /\ pc[s] = "respond"
    /\ response' = [response EXCEPT ![s] = Append(@, status[s])]
    /\ pc' = [pc EXCEPT ![s] = "done"]
    /\ UNCHANGED <<layers, activeLayers, status, nreq, cur, canvas, frame, sendq,
                   panicked, submitted, skipped, invalid>>
    /\ UNCHANGED loopVars
    /\ UNCHANGED <<serving, mapVars, bannerVars, blendVars>>


(***************************************************************************)
(* The rolling slots (rollingLayer). A loop state st holds the prepared    *)
(* layers by identity (objs), the slots (rl), hasRollingLayers (has) and   *)
(* whether an index expression panicked.                                   *)
(***************************************************************************)
reset(st, k) == [st EXCEPT !.rl[k].queue = <<>>]

(* faulty variant of enqueue: the layer is put in front of the queue *)
enqueueInFront(st, k, o) == [st EXCEPT !.rl[k].queue = <<o>> \o @]

enqueue(st, k, o) == [st EXCEPT !.rl[k].queue = Append(@, o)]

(* rl.position = pos; rl.queue[0].origin.X = pos *)
setPos(st, k, pos) ==
    IF st.rl[k].queue = <<>> THEN [st EXCEPT !.panic = TRUE]
    ELSE [st EXCEPT !.rl[k].position = pos,
                    !.objs[st.rl[k].queue[1]].origin = pos]

(* faulty variant of advance: the position goes up by one whatever it is *)
advanceByOne(st, k) == setPos(st, k, st.rl[k].position + 1)

advance(st, k) ==
    IF st.rl[k].queue = <<>> THEN [st EXCEPT !.panic = TRUE]
    ELSE
        LET rl == st.rl[k]
            head == st.objs[rl.queue[1]]
        IN  IF rl.position + displayWidth >= head.image.max THEN
                setPos(st, k, displayWidth - 1 + head.rolling.entry)
            ELSE IF rl.position = head.rolling.last /\ Len(rl.queue) > 1 THEN
                [setPos(st, k, 0) EXCEPT !.rl[k].queue = Tail(@)]
            ELSE
                setPos(st, k, rl.position + 1)

(***************************************************************************)
(* The render loop: one iteration.                                         *)
(***************************************************************************)
(* `if newSet { ... }`: the switch on l.rolling.mode for the layers from i on *)
RECURSIVE ProcessNewSet(_, _, _)
ProcessNewSet(st, set, i) ==
    IF i > Len(set) THEN st
    ELSE
        LET o == set[i]
            l == st.objs[o]
            k == l.id
            st1 ==
              CASE l.rolling.mode = RollingStop -> reset(st, k)
                [] l.rolling.mode = RollingStart ->
                     [setPos(enqueue(reset(st, k), k, o), k, 0) EXCEPT !.has = TRUE]
                [] l.rolling.mode = RollingContinue -> [st EXCEPT !.has = TRUE]
                [] l.rolling.mode = RollingNext ->
                     [enqueue(st, k, o) EXCEPT
                          !.objs[o].rolling.mode = RollingContinue, !.has = TRUE]
        IN  ProcessNewSet(st1, set, i + 1)

(* `if hasRollingLayers { ... }`: promote Start, advance Continue *)
RECURSIVE AdvanceSet(_, _, _)
AdvanceSet(st, set, i) ==
    IF i > Len(set) \/ st.panic THEN st
    ELSE
        LET o == set[i]
            l == st.objs[o]
            st1 ==
              CASE l.rolling.mode = RollingStart ->
                     [st EXCEPT !.objs[o].rolling.mode = RollingContinue]
                [] l.rolling.mode = RollingContinue -> advance(st, l.id)
                [] OTHER -> st
        IN  AdvanceSet(st1, set, i + 1)

(* toDisplay reads rollingLayers[l.id].queue[0] for a Continue layer *)
ToDisplayPanics(st, set) ==
    \E i \in 1..Len(set) :
        /\ st.objs[set[i]].rolling.mode = RollingContinue
        /\ st.rl[st.objs[set[i]].id].queue = <<>>

ToDisplay(st, set) ==
    [i \in 1..Len(set) |->
        IF st.objs[set[i]].rolling.mode = RollingContinue
        THEN st.rl[st.objs[set[i]].id].queue[1]
        ELSE set[i]]

(* the pixels a prepared layer shows: its own image's, or the store's if shared *)
Pix(l, L) == IF l.own THEN l.image.painted ELSE L[l.from].image.painted

(* what renderLed composites: per layer its identity, origin and pixels *)
renderLed(ls, O, L) ==
    [i \in 1..Len(ls) |->
        [obj |-> ls[i], from |-> O[ls[i]].from, origin |-> O[ls[i]].origin,
         painted |-> Pix(O[ls[i]], L)]]

Iteration(newSet, set, O, rl, has) ==
    LET st0 == [objs |-> O, rl |-> rl, has |-> IF newSet THEN FALSE ELSE has,
                panic |-> FALSE]
        st1 == IF newSet THEN ProcessNewSet(st0, set, 1) ELSE st0
        st2 == IF st1.has THEN AdvanceSet(st1, set, 1) ELSE st1
    IN  IF st2.panic THEN st2
        ELSE IF ToDisplayPanics(st2, set) THEN [st2 EXCEPT !.panic = TRUE]
        ELSE st2

(* the prepared layers still referenced by the loop *)
Live(set, rl) ==
    {set[i] : i \in 1..Len(set)} \cup
    UNION {{rl[k].queue[i] : i \in 1..Len(rl[k].queue)} : k \in Layers}

Restrict(f, S) == [x \in S |-> f[x]]

(* faulty variant of NextSender: the receive takes the newest blocked sender *)
NextSenderNewest(q) == q[Len(q)]

(* the blocked sender a receive on the channel takes: the oldest *)
NextSender(q) == Head(q)
RestSenders(q) == Tail(q)

(* faulty variant of AfterRender: a failed render ends the loop's goroutine *)
AfterRenderStops(st, err) == [st EXCEPT !.panic = err]

(* `_ = tower.renderLed(toDisplay)`: the error the render returns is dropped *)
AfterRender(st, err) == st

(* the rest of an iteration, from the receive on; err is what Render() returns *)
LoopBody(newSet, set, O, err) ==
    \E it \in {Iteration(newSet, set, O, rollingLayers, hasRollingLayers)} :
    \E st \in {IF it.panic THEN it ELSE AfterRender(it, err)} :
    /\ currentSet' = set
    /\ hwError' = (~it.panic /\ err)
    /\ IF st.panic THEN
           /\ panicked' = InRenderLoop
           /\ objs' = O
           /\ UNCHANGED <<rollingLayers, hasRollingLayers, shown, renders>>
       ELSE
           /\ UNCHANGED panicked
           /\ objs' = Restrict(st.objs, Live(set, st.rl))
           /\ rollingLayers' = st.rl
           /\ hasRollingLayers' = st.has
           /\ shown' = renderLed(ToDisplay(st, set), st.objs, layers)
           /\ renders' = IF newSet THEN 1 ELSE Min2(renders + 1, 2)

(* the identities of the prepared layers of the frame stream s is sending *)
FrameIds(s) == [i \in 1..Len(frame[s]) |-> <<s, i>>]

(* the prepared layers the loop holds once it has received that frame *)
WithFrame(s) ==
    [o \in DOMAIN objs \cup {FrameIds(s)[i] : i \in 1..Len(frame[s])} |->
        IF o \in DOMAIN objs THEN objs[o] ELSE frame[s][o[2]]]

(* `currentSet = <-c` (blocking, or the select's receive case) and the iteration *)
LoopRecvHw(err) ==
    /\ panicked = NoPanic
    /\ sendq # <<>>
    /\ \E s \in {NextSender(sendq)} : \E ids \in {FrameIds(s)} : \E O \in {WithFrame(s)} :
           /\ sendq' = RestSenders(sendq)
           /\ received' = Append(received, s)
           /\ pc' = [pc EXCEPT ![s] = "respond"]
           /\ frame' = [frame EXCEPT ![s] = <<>>]
           /\ LoopBody(TRUE, ids, O, err)
    /\ UNCHANGED <<layers, activeLayers, status, nreq, cur, canvas, response, submitted,
                   skipped, invalid>>
    /\ UNCHANGED <<serving, mapVars, bannerVars, blendVars>>

LoopRecv == LoopRecvHw(FALSE)

(* the same with a render that fails *)
LoopRecvFails == LoopRecvHw(TRUE)

(* the select's default case, taken when no sender is blocked, and the iteration *)
LoopTickHw(err) ==
    /\ panicked = NoPanic
    /\ hasRollingLayers
    /\ sendq = <<>>
    /\ LoopBody(FALSE, currentSet, objs, err)
    /\ UNCHANGED <<layers, activeLayers, pc, status, nreq, cur, canvas, frame, response,
                   sendq, submitted, received, skipped, invalid>>
    /\ UNCHANGED <<serving, mapVars, bannerVars, blendVars>>

LoopTick == LoopTickHw(FALSE)

(* the same with a render that fails *)
LoopTickFails == LoopTickHw(TRUE)

(***************************************************************************)
(* The system.                                                             *)
(***************************************************************************)
FreshStore ==
    /\ layers = [l \in Layers |-> NewLayer]
    /\ activeLayers = [l \in Layers |-> FALSE]

(* the handlers, the channel and the loop before any stream has sent anything *)
FreshRest ==
    /\ pc = [s \in Streams |-> "recv"]
    /\ status = [s \in Streams |-> NoError]
    /\ nreq = 0
    /\ cur = [s \in Streams |-> NoReq]
    /\ canvas = [s \in Streams |-> EmptyImage]
    /\ frame = [s \in Streams |-> <<>>]
    /\ response = [s \in Streams |-> <<>>]
    /\ sendq = <<>>
    /\ objs = [o \in {} |-> 0]
    /\ currentSet = <<>>
    /\ rollingLayers = [k \in Layers |-> [queue |-> <<>>, position |-> 0]]
    /\ hasRollingLayers = FALSE
    /\ panicked = NoPanic
    /\ submitted = <<>>
    /\ received = <<>>
    /\ renders = 0
    /\ shown = <<>>
    /\ skipped = {}
    /\ invalid = {}
    /\ hwError = FALSE
    /\ serving = TRUE

(* the strip loop of renderLed is not running; the strip is dark *)
(* color.RGBA as the composite stores it: 8-bit <<r, g, b>> *)
Black == <<0, 0, 0>>

StripIdle ==
    /\ result = [p \in Pixels |-> Black]
    /\ leds = [i \in StripIndices |-> 0]
    /\ writes = [i \in StripIndices |-> 0]
    /\ mapX = displayWidth
    /\ mapY = 0

(* an image.RGBA column by column: a column is a symbol, Blank the zero colour *)
Blank == 0
NewColumns(r) == [min |-> r.min, max |-> r.max, col |-> [x \in r.min..(r.max - 1) |-> Blank]]

(* no colours are being combined *)
BlendIdle ==
    /\ bg = <<0, 0, 0, 0>>
    /\ fg = <<0, 0, 0, 0>>
    /\ blend = <<>>

(* no banner is followed column by column, no colours are being combined *)
SideIdle ==
    /\ raw = NewColumns(Rect(0, 0))
    /\ steps = 0
    /\ BlendIdle

Init == FreshStore /\ FreshRest /\ StripIdle /\ SideIdle

Next ==
    \/ \E s \in Streams : RecvRequest(s)
    \/ \E s \in Streams : PrimReturn(s)
    \/ \E s \in Streams : RecvEOF(s)
    \/ \E s \in Streams : RecvError(s)
    \/ \E s \in Streams : Respond(s)
    \/ LoopRecv
    \/ LoopTick

Spec == Init /\ [][Next]_vars

(***************************************************************************)
(* Shutdown: grpcServer.Serve returns (its listener was closed) and Serve  *)
(* returns to its caller. Nothing closes tower.lsc and nothing tells the   *)
(* loop; the handlers of the streams still open run on.                    *)
(***************************************************************************)
ServeReturns ==
    /\ panicked = NoPanic
    /\ serving
    /\ serving' = FALSE
    /\ UNCHANGED <<storeVars, loopVars, mapVars, pc, status, nreq, cur, canvas, frame,
                   response, sendq, panicked, submitted, skipped, invalid>>
    /\ UNCHANGED <<bannerVars, blendVars>>

(* the loop's goroutine has left its `for`: the loop has no break or return *)
LoopReturned == FALSE

ShutdownNext == Next \/ ServeReturns

ShutdownSpec == Init /\ [][ShutdownNext]_vars

(***************************************************************************)
(* renderLed's second loop: the composite is copied to the strip, column   *)
(* by column, odd columns bottom-up. One step is one body of the inner     *)
(* loop.                                                                   *)
(***************************************************************************)
LedIndexStraight(x, y) == x * displayHeight + y

LedIndex(x, y) ==
    IF x % 2 = 0
    THEN x * displayHeight + y
    ELSE x * displayHeight + (displayHeight - 1 - y)

(* color.RGBA.RGBA(): each 8-bit channel widened to 16 bits *)
RGBA16(c) == [i \in 1..3 |-> c[i] * 256 + c[i]]

(* ((r>>8)&0xff)<<16 + ((g>>8)&0xff)<<8 + ((b>>8)&0xff)<<0 *)
LedWord(c) ==
    LET w == RGBA16(c)
    IN ((w[1] \div 256) % 256) * 65536 + ((w[2] \div 256) % 256) * 256
          + ((w[3] \div 256) % 256)

StripWrite ==
    /\ mapX < displayWidth
    /\ LET index == LedIndex(mapX, mapY)
       IN /\ leds' = [leds EXCEPT ![index] = LedWord(result[<<mapX, mapY>>])]
          /\ writes' = [writes EXCEPT ![index] = @ + 1]
    /\ IF mapY + 1 < displayHeight
       THEN /\ mapY' = mapY + 1
            /\ mapX' = mapX
       ELSE /\ mapY' = 0
            /\ mapX' = mapX + 1
    /\ UNCHANGED <<storeVars, loopVars, result, serving, pc, status, nreq, cur, canvas,
                   frame, response, sendq, panicked, submitted, skipped, invalid>>
    /\ UNCHANGED <<bannerVars, blendVars>>

LitColours == {<<255, 0, 0>>, <<0, 128, 255>>}

(* the composites renderLed is run on: black but for at most one pixel *)
Composites ==
    {[p \in Pixels |-> Black]}
        \cup {[p \in Pixels |-> IF p = q THEN c ELSE Black] : q \in Pixels, c \in LitColours}

MapInit ==
    /\ FreshStore
    /\ FreshRest
    /\ result \in Composites
    /\ leds = [i \in StripIndices |-> 0]
    /\ writes = [i \in StripIndices |-> 0]
    /\ mapX = 0
    /\ mapY = 0
    /\ SideIdle

MapNext == StripWrite

MapSpec == MapInit /\ [][MapNext]_vars

(***************************************************************************)
(* The render loop under rolling banners. Earlier streams (stream 0, gone  *)
(* since) have written a one-glyph "6x8" text at x = 0 on some layers; the *)
(* streams now send AutoRoll requests, and the hardware's Render() may     *)
(* fail.                                                                   *)
(***************************************************************************)
RollRequests ==
    { Req("AutoRoll", 0, 0, 0, 0, "", RollingStart, 0, 1),
      Req("AutoRoll", 0, 0, 0, 0, "", RollingNext, 0, 1),
      Req("AutoRoll", 1, 0, 0, 0, "", RollingStart, 0, 1) }

(* layer k after WriteText{layer k, x 0, font "6x8", one glyph} of stream 0 *)
Written(k) ==
    writeText([l \in Layers |-> NewLayer],
              Req("WriteText", k, 0, 1, 0, "6x8", RollingStop, 0, 0), EmptyImage, 0)[k]

RollInit ==
    /\ \E A \in [Layers -> BOOLEAN] :
          /\ activeLayers = A
          /\ layers = [k \in Layers |-> IF A[k] THEN Written(k) ELSE NewLayer]
    /\ FreshRest
    /\ StripIdle
    /\ SideIdle

RecvRollRequest(s) == RecvRequestOf(s, RollRequests)

RollNext ==
    \/ \E s \in Streams : RecvRollRequest(s)
    \/ \E s \in Streams : PrimReturn(s)
    \/ \E s \in Streams : RecvEOF(s)
    \/ \E s \in Streams : RecvError(s)
    \/ \E s \in Streams : Respond(s)
    \/ LoopRecv
    \/ LoopTick
    \/ LoopRecvFails
    \/ LoopTickFails

RollSpec == RollInit /\ [][RollNext]_vars

(* the loop's goroutine is scheduled: an iteration that can run does run *)
LoopIterates == LoopRecv \/ LoopTick \/ LoopRecvFails \/ LoopTickFails

FairRollSpec == RollSpec /\ WF_vars(LoopIterates)

(***************************************************************************)
(* The render loop fed with frames of every rolling mode. Earlier streams  *)
(* have written a glyph on some layers and set their rolling mode with     *)
(* AutoRoll; the streams now send Init requests, or none, and end.         *)
(***************************************************************************)
RollingModes == {RollingStop, RollingStart, RollingContinue, RollingNext}

(* layer k after WriteText (as in Written) and AutoRoll{layer k, mode m, 0, 1} *)
Rolled(k, m) ==
    autoRoll([l \in Layers |-> Written(l)],
             Req("AutoRoll", k, 0, 0, 0, "", m, 0, 1))[k]

SlotRequests == { Req("Init", 0, 0, 0, 0, "", RollingStop, 0, 0) }

SlotInit ==
    /\ \E A \in [Layers -> BOOLEAN], M \in [Layers -> RollingModes] :
          /\ activeLayers = A
          /\ layers = [k \in Layers |-> IF A[k] THEN Rolled(k, M[k]) ELSE NewLayer]
    /\ FreshRest
    /\ StripIdle
    /\ SideIdle

RecvSlotRequest(s) == RecvRequestOf(s, SlotRequests)

SlotNext ==
    \/ \E s \in Streams : RecvSlotRequest(s)
    \/ \E s \in Streams : PrimReturn(s)
    \/ \E s \in Streams : RecvEOF(s)
    \/ \E s \in Streams : RecvError(s)
    \/ \E s \in Streams : Respond(s)
    \/ LoopRecv
    \/ LoopTick

SlotSpec == SlotInit /\ [][SlotNext]_vars

(* the loop's goroutine and the handlers' goroutines are scheduled: an     *)
(* iteration that can run does run, and a handler that can respond does    *)
FairSlotSpec ==
    /\ SlotSpec
    /\ WF_vars(LoopRecv \/ LoopTick)
    /\ \A s \in Streams : WF_vars(Respond(s))

(***************************************************************************)
(* One rolling banner, column by column. An earlier stream has painted     *)
(* layer 0 on [left, left + w) and set it rolling in mode Start; stream 1  *)
(* ends, the loop receives its frame and ticks. A column of the store      *)
(* image is a symbol of its own; the same symbol in the prepared image is  *)
(* that column with the layer's alpha applied. The three copy loops of     *)
(* preparedLayer run for every row alike, so one row is followed.          *)
(***************************************************************************)
MaxLeft == 1
MaxWidth == 3
MaxEntry == 1
MaxSeparator == 1
MaxSteps == 8

(* img.At(x, y) and img.Set(x, y, c): outside the bounds, the zero colour and no effect *)
ColAt(img, x) == IF img.min <= x /\ x < img.max THEN img.col[x] ELSE Blank
ColSet(img, x, c) == IF img.min <= x /\ x < img.max THEN [img EXCEPT !.col[x] = c] ELSE img

(* `for x := 0; x < wEntry; x++`, from x on *)
RECURSIVE CopyEntry(_, _, _, _)
CopyEntry(ext, img, wEntry, x) ==
    IF x >= wEntry THEN ext
    ELSE CopyEntry(ColSet(ext, x + displayWidth - 1, ColAt(img, x)), img, wEntry, x + 1)

(* `for x := 0; x < wBody+wSep; x++` of tile nb, from x on *)
RECURSIVE CopyTile(_, _, _, _, _, _)
CopyTile(ext, img, wEntry, wPeriod, nb, x) ==
    IF x >= wPeriod THEN ext
    ELSE CopyTile(ColSet(ext, x + displayWidth - 1 + wEntry + nb * wPeriod,
                         ColAt(img, x + wEntry)),
                  img, wEntry, wPeriod, nb, x + 1)

(* `for nb := 0; nb < nBody+1; nb++`, from nb on *)
RECURSIVE CopyBody(_, _, _, _, _, _)
CopyBody(ext, img, wEntry, wPeriod, nBody, nb) ==
    IF nb >= nBody + 1 THEN ext
    ELSE CopyBody(CopyTile(ext, img, wEntry, wPeriod, nb, 0),
                  img, wEntry, wPeriod, nBody, nb + 1)

(* `for x := 0; x < displayWidth-1; x++`: the run-on, read from extendedImg itself *)
RECURSIVE CopyRunOn(_, _, _, _)
CopyRunOn(ext, wEntry, wTiles, x) ==
    IF x >= displayWidth - 1 THEN ext
    ELSE CopyRunOn(ColSet(ext, x + displayWidth - 1 + wEntry + wTiles,
                          ColAt(ext, x + displayWidth - 1 + wEntry)),
                   wEntry, wTiles, x + 1)

(* extendedImg of a rolling layer l whose image has the columns img *)
ExtendedColumns(l, img) ==
    LET wEntry == l.rolling.entry
        wSep == l.rolling.separator
        wBody == img.max - wEntry - wSep
        nBody == GoDiv(displayWidth + wSep - 1, wBody + wSep)
        wTot == 2 * (displayWidth - 1) + wEntry + (nBody + 1) * (wBody + wSep)
        e0 == NewColumns(Rect(0, wTot))
        e1 == CopyEntry(e0, img, wEntry, 0)
        e2 == CopyBody(e1, img, wEntry, wBody + wSep, nBody, 0)
    IN  CopyRunOn(e2, wEntry, (nBody + 1) * (wBody + wSep), 0)

(* the store layer: painted on [left, left + w), AutoRoll{Start, e, s} *)
BannerLayer(left, w, e, s) ==
    [NewLayer EXCEPT !.image = [min |-> left, max |-> left + w, painted |-> {0}],
                     !.rolling = [mode |-> RollingStart, entry |-> e, separator |-> s]]

BannerColumns(left, w) ==
    [min |-> left, max |-> left + w, col |-> [x \in left..(left + w - 1) |-> x - left + 1]]

BannerInit ==
    /\ \E left \in 0..MaxLeft, w \in 1..MaxWidth, e \in 0..MaxEntry, s \in 0..MaxSeparator :
          /\ layers = [k \in Layers |-> IF k = 0 THEN BannerLayer(left, w, e, s)
                                        ELSE NewLayer]
          /\ raw = BannerColumns(left, w)
    /\ activeLayers = [k \in Layers |-> k = 0]
    /\ FreshRest
    /\ StripIdle
    /\ steps = 0
    /\ BlendIdle

(* the image of the banner's prepared layer *)
Extended == ExtendedColumns(layers[0], raw)

(* what renderLed reads of a layer at origin.X = pos: layer.image.At(x0+x, ...) *)
Window(img, pos) == [x \in 0..(displayWidth - 1) |-> ColAt(img, pos + x)]

(* an iteration of the loop on the select's default case, counted *)
BannerTick ==
    /\ panicked = NoPanic
    /\ hasRollingLayers
    /\ sendq = <<>>
    /\ steps < MaxSteps
    /\ steps' = steps + 1
    /\ LoopBody(FALSE, currentSet, objs, FALSE)
    /\ UNCHANGED <<layers, activeLayers, pc, status, nreq, cur, canvas, frame, response,
                   sendq, submitted, received, skipped, invalid>>
    /\ UNCHANGED <<serving, mapVars, raw, blendVars>>

BannerNext ==
    \/ RecvEOF(1)
    \/ Respond(1)
    \/ LoopRecv
    \/ BannerTick

BannerSpec == BannerInit /\ [][BannerNext]_vars

(***************************************************************************)
(* combineOver on the colours the program hands it: 8-bit RGBA colours     *)
(* (color.RGBA from a request or from an image.RGBA), composed in uint32.  *)
(***************************************************************************)
ChannelValues == {0, 128, 255}
Colours8 == ChannelValues \X ChannelValues \X ChannelValues \X ChannelValues

(* color.RGBA.RGBA(): each 8-bit channel c widened to c | c<<8 *)
RGBAOf(c) == [i \in 1..4 |-> c[i] * 256 + c[i]]

(* A number too wide for the checker's integers is held as <<hi, lo>>,      *)
(* hi * 2^16 + lo with 0 <= lo < 2^16; it fits a uint32 iff hi < 2^16.     *)
Norm(hi, lo) == <<hi + lo \div 65536, lo % 65536>>
Fits32(n) == n[1] < 65536
U32(n) == <<n[1] % 65536, n[2]>>
U16(n) == n % 65536

(* a * b for a, b < 2^16, by 8-bit halves *)
Mul16(a, b) ==
    LET ah == a \div 256
        al == a % 256
        bh == b \div 256
        bl == b % 256
        mid == ah * bl + al * bh
    IN  Norm(ah * bh + mid \div 256, (mid % 256) * 256 + al * bl)

Add32(m, n) == Norm(m[1] + n[1], m[2] + n[2])

(* n / 0xffff: n = hi * 0xffff + (hi + lo) *)
DivFFFF(n) == n[1] + (n[1] + n[2]) \div 65535

(* c1*a1 + c0*(0xffff-a1), before any wrap-around *)
OverSum(c1, a1, c0) == Add32(Mul16(c1, a1), Mul16(c0, 65535 - a1))

(* (c1*a1 + c0*(0xffff-a1)) / 0xffff in uint32 *)
OverChannel(c1, a1, c0) ==
    DivFFFF(U32(Add32(U32(Mul16(c1, a1)), U32(Mul16(c0, 65535 - a1)))))

(* the RGBA64 returned, and the three sums as integers *)
combineOver(b, f) ==
    [out |-> <<U16(OverChannel(f[1], f[4], b[1])), U16(OverChannel(f[2], f[4], b[2])),
               U16(OverChannel(f[3], f[4], b[3])), 65535>>,
     sums |-> <<OverSum(f[1], f[4], b[1]), OverSum(f[2], f[4], b[2]),
                OverSum(f[3], f[4], b[3])>>]

BlendInit ==
    /\ FreshStore
    /\ FreshRest
    /\ StripIdle
    /\ raw = NewColumns(Rect(0, 0))
    /\ steps = 0
    /\ \E b \in Colours8, f \in Colours8 :
          /\ bg = RGBAOf(b)
          /\ fg = RGBAOf(f)
    /\ blend = <<>>

Combine ==
    /\ blend = <<>>
    /\ blend' = combineOver(bg, fg)
    /\ UNCHANGED <<storeVars, loopVars, mapVars, bannerVars, serving, pc, status, nreq, cur,
                   canvas, frame, response, sendq, panicked, submitted, skipped, invalid,
                   bg, fg>>

BlendNext == Combine

BlendSpec == BlendInit /\ [][BlendNext]_vars


(***************************************************************************)
(* The pixels of one layer's canvas under the primitives of one stream.    *)
(* `raw` holds row 0 of the canvas of layer 0, a colour per column, next   *)
(* to the layer store. A colour is Blank (the zero colour, transparent),   *)
(* OpaqueBlack, or one of the opaque colours a request carries.            *)
(***************************************************************************)
MaxX == 2
MaxRectW == 2

OpaqueBlack == 1
PaintColours == {Blank, 2, 3}
PaintSet == "SET"
PaintOver == "OVER"
PaintModes == {PaintSet, PaintOver}

(* combineOver on these colours: an opaque foreground gives the foreground; *)
(* a transparent one gives the background's channels with alpha 0xFFFF     *)
OverColour(b, f) == IF f # Blank THEN f ELSE IF b = Blank THEN OpaqueBlack ELSE b

(* faulty variant of resizeColumns: the new image keeps none of the old pixels *)
resizeColumnsFresh(src, rect) ==
    LET newBounds == RectUnion(Bounds(src), rect)
    IN  IF ~RectEq(newBounds, Bounds(src)) THEN NewColumns(newBounds) ELSE src

(* resizeImage with the pixels: dst.Set(x, y, src.At(x, y)) over src's bounds *)
resizeColumns(src, rect) ==
    LET bounds == Bounds(src)
        newBounds == RectUnion(bounds, rect)
    IN  IF ~RectEq(newBounds, bounds)
        THEN [min |-> newBounds.min, max |-> newBounds.max,
              col |-> [x \in newBounds.min..(newBounds.max - 1) |-> ColAt(src, x)]]
        ELSE src

(* paint(img, x, y, c, mode) *)
paintColumn(img, x, c, mode) ==
    IF mode = PaintOver THEN ColSet(img, x, OverColour(ColAt(img, x), c))
    ELSE ColSet(img, x, c)

(* paint on every column of the set X, one after the other *)
RECURSIVE paintColumns(_, _, _, _)
paintColumns(img, X, c, mode) ==
    IF X = {} THEN img
    ELSE LET x == CHOOSE x \in X : \A z \in X : x <= z
         IN  paintColumns(paintColumn(img, x, c, mode), X \ {x}, c, mode)

(* the columns of a glyph that have a bit set in row 0: all but the last *)
GlyphColumns(r) ==
    {r.x + i : i \in {j \in 0..(FontWidth(r.font) * r.w - 1) :
                          (j % FontWidth(r.font)) # FontWidth(r.font) - 1}}

(* the columns a drawing primitive calls paint on *)
PaintedColumns(r) ==
    CASE r.kind = "SetPixels" -> {r.x}
      [] r.kind = "DrawRectangle" -> TargetRect(r).min..(TargetRect(r).max - 1)
      [] r.kind = "DrawBitmap" -> TargetRect(r).min..(TargetRect(r).max - 1)
      [] r.kind = "WriteText" -> IF KnownFont(r.font) THEN GlyphColumns(r) ELSE {}
      [] OTHER -> {}

(* the rectangle the primitive hands to resizeImage *)
ResizeRect(r) ==
    CASE r.kind = "SetLayerOrigin" -> Rect(r.x, r.x + displayWidth)
      [] r.kind = "WriteText" -> IF KnownFont(r.font) THEN TargetRect(r) ELSE Rect(0, 0)
      [] OTHER -> TargetRect(r)

(* row 0 of the canvas after the primitive of request r *)
CanvasAfter(img, r, c, mode) ==
    CASE r.kind \in {"Init", "Clear"} -> NewColumns(Rect(0, 0))
      [] OTHER -> paintColumns(resizeColumns(img, ResizeRect(r)), PaintedColumns(r), c, mode)

CanvasRequests ==
    { Req("Clear", 0, 0, 0, 0, "", RollingStop, 0, 0),
      Req("SetLayerAlpha", 0, 0, 0, 32768, "", RollingStop, 0, 0),
      Req("AutoRoll", 0, 0, 0, 0, "", RollingStart, 0, 1),
      Req("WriteText", 0, 0, 1, 0, "6x8", RollingStop, 0, 0),
      Req("WriteText", 0, 0, 1, 0, "9x9", RollingStop, 0, 0) }
    \cup { Req("SetPixels", 0, x, 1, 0, "", RollingStop, 0, 0) : x \in 0..MaxX }
    \cup { Req("SetLayerOrigin", 0, x, 0, 0, "", RollingStop, 0, 0) : x \in 0..MaxX }
    \cup { Req("DrawRectangle", 0, x, w, 0, "", RollingStop, 0, 0) :
               x \in 0..MaxX, w \in 0..MaxRectW }
    \cup { Req("DrawBitmap", 0, x, w, w, "", RollingStop, 0, 0) :
               x \in 0..MaxX, w \in 0..MaxRectW }

(* stream 1 receives a request and enters its primitive *)
RecvCanvasRequest == RecvRequestOf(1, CanvasRequests)

(* the primitive of stream 1 returns: PrimReturn with the pixels, the      *)
(* request carrying colour c and paint mode mode                           *)
CanvasReturn(c, mode) ==
    /\ panicked = NoPanic
    /\ pc[1] = "prim"
    /\ layers' =
         CASE cur[1].kind = "Init" -> init(layers)
           [] cur[1].kind = "Clear" -> clear(layers, cur[1])
           [] cur[1].kind = "SetPixels" -> setPixels(layers, cur[1], canvas[1], 1)
           [] cur[1].kind = "DrawRectangle" -> drawRectangle(layers, cur[1], canvas[1], 1)
           [] cur[1].kind = "DrawBitmap" -> drawBitmap(layers, cur[1], canvas[1], 1)
           [] cur[1].kind = "WriteText" -> writeText(layers, cur[1], canvas[1], 1)
           [] cur[1].kind = "SetLayerOrigin" -> setLayerOrigin(layers, cur[1])
           [] cur[1].kind = "SetLayerAlpha" -> setLayerAlpha(layers, cur[1])
           [] cur[1].kind = "AutoRoll" -> autoRoll(layers, cur[1])
    /\ activeLayers' =
         CASE cur[1].kind = "Init" -> [l \in Layers |-> FALSE]
           [] cur[1].kind = "Clear" -> [activeLayers EXCEPT ![cur[1].layer] = FALSE]
           [] OTHER -> activeLayers
    /\ raw' = CanvasAfter(raw, cur[1], c, mode)
    /\ status' = [status EXCEPT ![1] =
         IF cur[1].kind = "WriteText" THEN writeTextStatus(cur[1]) ELSE NoError]
    /\ pc' = [pc EXCEPT ![1] = "recv"]
    /\ cur' = [cur EXCEPT ![1] = NoReq]
    /\ canvas' = [canvas EXCEPT ![1] = EmptyImage]
    /\ UNCHANGED <<nreq, frame, response, sendq, panicked, submitted, skipped, invalid,
                   steps>>
    /\ UNCHANGED <<loopVars, serving, mapVars, blendVars>>

CanvasNext ==
    \/ RecvCanvasRequest
    \/ \E c \in PaintColours, mode \in PaintModes : CanvasReturn(c, mode)

CanvasSpec == Init /\ [][CanvasNext]_vars


(***************************************************************************)
(* Banners of different widths in the slots. An earlier stream has written *)
(* a glyph on layer 0 and set it rolling in mode Start, and has drawn a    *)
(* rectangle k columns wide on every other layer k; the streams now stop   *)
(* layer 0 or set layer 1 rolling, and end.                                *)
(***************************************************************************)
(* layer k after DrawRectangle{layer k, [0, k)} of stream 0 *)
Drawn(k) ==
    drawRectangle([l \in Layers |-> NewLayer],
                  Req("DrawRectangle", k, 0, k, 0, "", RollingStop, 0, 0), EmptyImage, 0)[k]

WindowRequests ==
    { Req("AutoRoll", 0, 0, 0, 0, "", RollingStop, 0, 0),
      Req("AutoRoll", 1, 0, 0, 0, "", RollingNext, 0, 1),
      Req("AutoRoll", 1, 0, 0, 0, "", RollingStart, 0, 0) }

WindowInit ==
    /\ \E e \in 0..MaxEntry, s \in 0..MaxSeparator :
          layers = [k \in Layers |->
                      IF k = 0
                      THEN autoRoll([l \in Layers |-> Written(l)],
                                    Req("AutoRoll", 0, 0, 0, 0, "", RollingStart, e, s))[0]
                      ELSE Drawn(k)]
    /\ activeLayers = [k \in Layers |-> k = 0]
    /\ FreshRest
    /\ StripIdle
    /\ SideIdle

RecvWindowRequest(s) == RecvRequestOf(s, WindowRequests)

WindowNext ==
    \/ \E s \in Streams : RecvWindowRequest(s)
    \/ \E s \in Streams : PrimReturn(s)
    \/ \E s \in Streams : RecvEOF(s)
    \/ \E s \in Streams : Respond(s)
    \/ LoopRecv
    \/ LoopTick

WindowSpec == WindowInit /\ [][WindowNext]_vars


(***************************************************************************)
(* Properties.                                                             *)
(***************************************************************************)
Range(q) == {q[i] : i \in 1..Len(q)}

DispatcherStep(s) ==
    RecvRequest(s) \/ PrimReturn(s) \/ RecvEOF(s) \/ RecvError(s) \/ Respond(s)

LoopStep == LoopRecv \/ LoopTick

(* the most recently received frame holds a layer whose mode is not Stop *)
CurrentHasRolling ==
    \E i \in 1..Len(currentSet) : objs[currentSet[i]].rolling.mode # RollingStop

(* C1: a stream with a latched error never sends a frame to the render     *)
(* loop, and its single response carries the error's message, which is     *)
(* "Unknown font" for a WriteText with a font other than 6x8 and 8x8.      *)
C1_ErrorMeansNoFrame ==
    \A s \in Streams :
        status[s] # NoError =>
            /\ s \notin Range(submitted)
            /\ s \notin Range(received)
            /\ frame[s] = <<>>
            /\ pc[s] \in {"recv", "respond", "done", "aborted"}
            /\ (pc[s] = "done" => response[s] = <<UnknownFont>>)
            /\ (pc[s] # "done" => response[s] = <<>>)

C1_Witness ==
    \E s \in Streams :
        /\ status[s] = UnknownFont
        /\ pc[s] = "done"
        /\ response[s] = <<UnknownFont>>

(* C2: once a stream has latched an error, none of its later steps (its    *)
(* skipped requests, its end of stream) changes the layer store.           *)
C2_LatchedStreamLeavesStore ==
    [][\A s \in Streams :
          (status[s] # NoError /\ DispatcherStep(s)) => UNCHANGED storeVars]_vars

C2_Witness ==
    \E s \in Streams :
        /\ s \in skipped
        /\ status[s] # NoError
        /\ pc[s] = "done"

(* C3: handling any sequence of primitives followed by end of stream never *)
(* panics, and a stream that is done has sent exactly one response.        *)
C3_NoPanicOneResponse ==
    /\ panicked = NoPanic
    /\ \A s \in Streams :
        /\ (pc[s] = "done" => Len(response[s]) = 1)
        /\ (pc[s] # "done" => response[s] = <<>>)

(* C4: a primitive with a layer index outside [0, N), or a DrawBitmap      *)
(* whose colour list is not width*height long, latches an error: the       *)
(* process keeps running, the stream's response is not empty and the       *)
(* stream submits no frame.                                                *)
C4_InvalidRequestIsReported ==
    \A s \in invalid :
        /\ panicked = NoPanic
        /\ (pc[s] # "prim" => status[s] # NoError)
        /\ s \notin Range(submitted)
        /\ (pc[s] = "done" => response[s] # <<NoError>>)

(* C5: a stream whose receive failed with a transport error has sent no    *)
(* response and submitted no frame.                                        *)
C5_TransportErrorAborts ==
    \A s \in Streams :
        pc[s] = "aborted" =>
            /\ response[s] = <<>>
            /\ frame[s] = <<>>
            /\ s \notin Range(submitted)
            /\ s \notin Range(sendq)

C5_Witness ==
    \E s \in Streams :
        /\ pc[s] = "aborted"
        /\ \E l \in Layers : s \in layers[l].image.painted

(* C6: at most one dispatcher task is inside a primitive at any time.      *)
C6_PrimitivesSerialized ==
    Cardinality({s \in Streams : pc[s] = "prim"}) <= 1

(* a stream that reached end of stream with no error latched *)
Successful(s) == status[s] = NoError /\ pc[s] \in {"send", "respond", "done"}

(* C7: a frame the render loop has received shows only pixels painted by   *)
(* streams that ended successfully: none by a stream still in progress,    *)
(* aborted, or with an error latched.                                      *)
C7_FramesOnlyFromCompleteStreams ==
    \A o \in DOMAIN objs : \A w \in objs[o].image.painted : Successful(w)

(* C8: no step of a dispatcher task changes a prepared layer of a frame    *)
(* that was submitted (blocked in the send, or held by the render loop):   *)
(* neither its fields nor the pixels it shows; and no step of the render   *)
(* loop changes the layer store.                                           *)
C8_FramesAreSnapshots ==
    [][/\ \A s \in Streams :
            DispatcherStep(s) =>
               /\ \A o \in DOMAIN objs :
                     /\ o \in DOMAIN objs'
                     /\ objs'[o] = objs[o]
                     /\ Pix(objs[o], layers') = Pix(objs[o], layers)
               /\ \A u \in Range(sendq) :
                     /\ frame'[u] = frame[u]
                     /\ \A i \in 1..Len(frame[u]) :
                           Pix(frame[u][i], layers') = Pix(frame[u][i], layers)
       /\ LoopStep => UNCHANGED storeVars]_vars

C8_Witness ==
    \E o \in DOMAIN objs :
        /\ objs[o].own
        /\ layers[objs[o].from].image.painted # objs[o].image.painted

(* C9: the frames received are, in order and without gap or repetition,    *)
(* the frames submitted; the loop's current frame is the last one          *)
(* received, and it has been rendered at least once.                       *)
C9_FramesInSubmissionOrder ==
    /\ submitted = received \o [i \in 1..Len(sendq) |-> sendq[i]]
    /\ Cardinality(Range(submitted)) = Len(submitted)
    /\ \A i \in 1..Len(currentSet) : currentSet[i][1] = received[Len(received)]
    /\ (received # <<>> /\ panicked = NoPanic) => renders >= 1

C9_Witness ==
    /\ Len(received) = 2
    /\ currentSet # <<>>
    /\ renders >= 1
    /\ panicked = NoPanic

(* C10: while the current frame holds a rolling layer and no frame is      *)
(* waiting, the loop does not block (its next iteration can run); with no  *)
(* rolling layer it blocks and the frame has been rendered exactly once.   *)
C10_RollingLoopKeepsIterating ==
    (received # <<>> /\ panicked \in {NoPanic, InRenderLoop}) =>
        IF CurrentHasRolling
        THEN sendq = <<>> => ENABLED LoopTick
        ELSE (~ENABLED LoopTick) /\ renders = 1

(* the store layers the prepared layers of a list were built from *)
FromSeq(ls) == [i \in 1..Len(ls) |-> ls[i].from]

(* the layers that are active, in ascending order, from layer i on *)
RECURSIVE ActiveFrom(_, _)
ActiveFrom(A, i) ==
    IF i >= maxLayers THEN <<>>
    ELSE IF A[i] THEN <<i>> \o ActiveFrom(A, i + 1)
    ELSE ActiveFrom(A, i + 1)

(* C11: a frame holds one prepared layer for each layer active when it is  *)
(* built and none for another, in ascending layer order; and every render  *)
(* is handed, entry by entry, a prepared layer of the same store layer as  *)
(* the current frame's, so the list is one entry per active layer in       *)
(* ascending layer order.                                                  *)
C11_RenderListIsActiveLayersAscending ==
    [][/\ \A s \in Streams :
            (RecvEOF(s) /\ pc'[s] = "send") =>
                FromSeq(frame'[s]) = ActiveFrom(activeLayers, 0)
       /\ (LoopIterates /\ panicked' = NoPanic) =>
             /\ Len(shown') = Len(currentSet')
             /\ \A i \in 1..Len(shown') :
                   shown'[i].from = objs'[currentSet'[i]].from]_vars

(* a request received with no status latched that the type switch has no   *)
(* case for: the handler is back at its receive in the same step           *)
Undispatched(s) ==
    /\ RecvRequest(s)
    /\ ~Latched(status[s])
    /\ pc'[s] = "recv"

(* C12: the active flags follow the primitives. A primitive other than     *)
(* init and clear makes the layer it targets active and changes no other   *)
(* flag (also a primitive the switch has no case for, such as Fill); init  *)
(* makes every layer inactive and clear the layers it lists, changing no   *)
(* other flag; nothing else changes a flag. Hence a layer is active        *)
(* exactly if a primitive other than init and clear targeted it after the  *)
(* last init or clear that covered it.                                     *)
C12_ActiveIffTargetedSinceReset ==
    [][/\ \A s \in Streams :
            /\ (RecvRequest(s) /\ pc'[s] = "prim" /\ panicked' = NoPanic) =>
                  \A k \in Layers :
                      activeLayers'[k] =
                          IF cur'[s].kind \notin {"Init", "Clear"} /\ k \in Indexed(cur'[s])
                          THEN TRUE ELSE activeLayers[k]
            /\ Undispatched(s) =>
                  \E r \in Requests :
                      /\ ~Dispatched(r)
                      /\ \A k \in Layers :
                            activeLayers'[k] = IF k = r.layer THEN TRUE ELSE activeLayers[k]
            /\ (PrimReturn(s) /\ panicked' = NoPanic) =>
                  \A k \in Layers :
                      activeLayers'[k] =
                          IF cur[s].kind = "Init" \/
                             (cur[s].kind = "Clear" /\ k \in Indexed(cur[s]))
                          THEN FALSE ELSE activeLayers[k]
            /\ (RecvEOF(s) \/ RecvError(s) \/ Respond(s)) => UNCHANGED activeLayers
       /\ LoopStep => UNCHANGED activeLayers]_vars

(* an empty 0x0 canvas, origin (0,0), alpha 0xFFFF, rolling Stop, 0, 0 *)
IsReset(l) ==
    /\ l.image = [min |-> 0, max |-> 0, painted |-> {}]
    /\ l.origin = 0
    /\ l.alpha = 65535
    /\ l.rolling = [mode |-> RollingStop, entry |-> 0, separator |-> 0]

SameLayer(l, m) ==
    /\ l.image = m.image
    /\ l.origin = m.origin
    /\ l.alpha = m.alpha
    /\ l.rolling = m.rolling

(* C13: when init returns every layer is reset and inactive; when clear    *)
(* returns the layers it lists are reset and inactive, and the canvas,     *)
(* origin, alpha, rolling parameters and active flag of every other layer  *)
(* are as they were.                                                       *)
C13_InitAndClearReset ==
    [][\A s \in Streams :
          (PrimReturn(s) /\ panicked' = NoPanic) =>
              /\ cur[s].kind = "Init" =>
                    \A k \in Layers : IsReset(layers'[k]) /\ ~activeLayers'[k]
              /\ cur[s].kind = "Clear" =>
                    \A k \in Layers :
                        IF k \in Indexed(cur[s])
                        THEN IsReset(layers'[k]) /\ ~activeLayers'[k]
                        ELSE /\ SameLayer(layers'[k], layers[k])
                             /\ activeLayers'[k] = activeLayers[k]]_vars

(* a layer that was in a frame (its id was set) has been reset *)
C13_Witness ==
    \E k \in Layers :
        /\ k > 0
        /\ layers[k].id = k
        /\ IsReset(layers[k])
        /\ ~activeLayers[k]

(* C14: every prepared layer, in a frame being sent or held by the loop,    *)
(* has as id the index of the store layer it was built from; so the        *)
(* prepared layers of one frame have different ids (different slots).      *)
C14_PreparedLayerCarriesIndex ==
    /\ \A o \in DOMAIN objs : objs[o].id = objs[o].from
    /\ \A s \in Streams : \A i \in 1..Len(frame[s]) :
          /\ frame[s][i].id = frame[s][i].from
          /\ \A j \in 1..Len(frame[s]) : i # j => frame[s][i].id # frame[s][j].id

(* C15: a Fill request received with no status latched paints the canvas   *)
(* of its layer (the stream is among those that painted it) unless the     *)
(* canvas is empty, and leaves the canvas bounds as they were.             *)
C15_FillPaintsCurrentBounds ==
    [][\A s \in Streams :
          Undispatched(s) =>
              \E r \in Requests :
                  /\ r.kind = "Fill"
                  /\ Bounds(layers'[r.layer].image) = Bounds(layers[r.layer].image)
                  /\ IF RectEmpty(Bounds(layers[r.layer].image))
                     THEN layers'[r.layer].image = layers[r.layer].image
                     ELSE s \in layers'[r.layer].image.painted]_vars

(* the loop's variables after this step are those the iteration `it` on    *)
(* the frame `set` had computed when it called renderLed                   *)
AsBeforeRender(it, set) ==
    /\ currentSet' = set
    /\ rollingLayers' = it.rl
    /\ hasRollingLayers' = it.has
    /\ objs' = Restrict(it.objs, Live(set, it.rl))
    /\ shown' = renderLed(ToDisplay(it, set), it.objs, layers)

(* C16: an iteration whose render fails does not end the loop (the loop's  *)
(* goroutine has not panicked while the last render is a failed one); it   *)
(* leaves the current frame, the slot queues and the positions as the      *)
(* iteration computed them before rendering; it changes no stream's status *)
(* or response, and every response sent is the stream's own status.        *)
C16_RenderFailureIsIgnored ==
    [][/\ hwError' => panicked' # InRenderLoop
       /\ \A s \in Streams : pc'[s] = "done" => response'[s] = <<status'[s]>>
       /\ (LoopTickFails /\ hwError') =>
            /\ AsBeforeRender(Iteration(FALSE, currentSet, objs,
                                        rollingLayers, hasRollingLayers), currentSet)
            /\ UNCHANGED <<status, response, panicked>>
       /\ (LoopRecvFails /\ hwError') =>
            /\ AsBeforeRender(Iteration(TRUE, FrameIds(NextSender(sendq)),
                                        WithFrame(NextSender(sendq)),
                                        rollingLayers, hasRollingLayers),
                              FrameIds(NextSender(sendq)))
            /\ UNCHANGED <<status, response, panicked>>]_vars

C16_Witness ==
    /\ hwError
    /\ panicked = NoPanic
    /\ hasRollingLayers
    /\ \E k \in Layers : rollingLayers[k].position > 0
    /\ \E s \in Streams : pc[s] = "done"

(* C17: after shutdown the loop terminates: once Serve has returned, every *)
(* stream is over, no frame is pending and no banner rolls (nothing more   *)
(* can happen), the loop's goroutine has returned.                         *)
C17_LoopExitsAfterShutdown ==
    (/\ ~serving
     /\ \A s \in Streams : pc[s] \in {"done", "aborted"}
     /\ sendq = <<>>
     /\ ~hasRollingLayers)
        => LoopReturned

(* C18: the strip index of pixel (x, y) is x*H + y for even x and          *)
(* x*H + (H-1-y) for odd x; the mapping is a bijection onto [0, W*H): no   *)
(* word is written twice, and when the strip loop is over every word has   *)
(* been written exactly once and the word at the index of each pixel holds *)
(* that pixel's colour. Pixel (3, 2) goes to word 29.                      *)
SerpentineIndex(x, y) == x * displayHeight + (IF x % 2 = 0 THEN y ELSE displayHeight - 1 - y)

C18_SerpentineIsBijection ==
    /\ \A i \in StripIndices : writes[i] <= 1
    /\ \A p \in Pixels :
          (p[1] < mapX \/ (p[1] = mapX /\ p[2] < mapY))
              => /\ writes[SerpentineIndex(p[1], p[2])] = 1
                 /\ leds[SerpentineIndex(p[1], p[2])] = LedWord(result[p])
    /\ mapX = displayWidth => \A i \in StripIndices : writes[i] = 1
    /\ LedIndex(3, 2) = 29

(* C18 witness: the strip loop is over after a render whose composite has  *)
(* a lit pixel in an odd column, and that pixel's word is lit on the strip *)
C18_Witness ==
    /\ mapX = displayWidth
    /\ \A i \in StripIndices : writes[i] = 1
    /\ \E p \in Pixels :
          /\ p[1] % 2 = 1
          /\ p[2] = 2
          /\ result[p] = <<0, 128, 255>>
          /\ leds[p[1] * displayHeight + 5] = 33023

(* C19: the first render after a frame is received shows each of the       *)
(* frame's layers in mode Start at scroll position 0; and an iteration     *)
(* without a new frame shows a scrolling layer that alone holds its slot   *)
(* (as a layer started by that frame does), short of the wrap point, at    *)
(* the position of the previous render plus one.                           *)
C19_StartScrollsFromZeroByOne ==
    [][/\ ((LoopRecv \/ LoopRecvFails) /\ panicked' = NoPanic) =>
             \A i \in 1..Len(frame[NextSender(sendq)]) :
                 frame[NextSender(sendq)][i].rolling.mode = RollingStart =>
                     /\ shown'[i].from = frame[NextSender(sendq)][i].from
                     /\ shown'[i].origin = 0
       /\ ((LoopTick \/ LoopTickFails) /\ panicked' = NoPanic) =>
             \A i \in 1..Len(currentSet) :
                 (/\ objs[currentSet[i]].rolling.mode = RollingContinue
                  /\ rollingLayers[objs[currentSet[i]].id].queue = <<currentSet[i]>>
                  /\ shown[i].origin + displayWidth < objs[currentSet[i]].image.max)
                     => /\ shown'[i].from = shown[i].from
                        /\ shown'[i].origin = shown[i].origin + 1]_vars

(* no further frame will arrive: every stream is over and none is sending *)
NoMoreFrames ==
    /\ \A s \in Streams : pc[s] \in {"done", "aborted"}
    /\ sendq = <<>>

(* C20: a banner queued by a frame in mode Next behind a rolling head gets *)
(* its turn: under continued iterations and no further frame, the head is  *)
(* eventually popped (its position having reached `last`), unless the      *)
(* process has died.                                                       *)
C20_NextBannerEventuallyTakesOver ==
    \A k \in Layers :
        (NoMoreFrames /\ panicked = NoPanic /\ Len(rollingLayers[k].queue) > 1)
            ~> (Len(rollingLayers[k].queue) <= 1 \/ panicked # NoPanic)

(* the banner's frame has been received and the loop is rolling it *)
BannerRolls == panicked = NoPanic /\ Len(shown) = 1 /\ Len(currentSet) = 1

(* C21: a rolling banner wraps seamlessly: after exactly last + 1 advance  *)
(* steps from position 0, `last` being what its prepared layer records,    *)
(* the window shown is the window that was shown at position 0.            *)
C21_WindowRepeatsAfterLastPlusOne ==
    (BannerRolls /\ steps = objs[currentSet[1]].rolling.last + 1)
        => Window(Extended, shown[1].origin) = Window(Extended, 0)

(* C22: combining over with a fully transparent foreground returns the   *)
(* background, whatever it is; with an opaque foreground it returns the    *)
(* foreground with alpha 0xFFFF; the sums fit 32 bits and every channel    *)
(* returned is at most 0xFFFF.                                             *)
C22_CombineOverIdentities ==
    blend # <<>> =>
        /\ fg[4] = 0 => blend.out = bg
        /\ fg[4] = 65535 => blend.out = <<fg[1], fg[2], fg[3], 65535>>
        /\ \A i \in 1..3 : Fits32(blend.sums[i])
        /\ \A i \in 1..4 : blend.out[i] <= 65535

(* the loop's state when it starts on a new frame: `hasRollingLayers = false` *)
AtNewSet(O) == [objs |-> O, rl |-> rollingLayers, has |-> FALSE, panic |-> FALSE]

(* what the switch on the mode of layer o does to the slots, from b to a *)
SlotEffect(b, a, o) ==
    LET k == b.objs[o].id
        mode == b.objs[o].rolling.mode
    IN  /\ mode = RollingStop => a.rl[k].queue = <<>>
        /\ mode = RollingStart => a.rl[k].queue = <<o>> /\ a.rl[k].position = 0
        /\ mode = RollingContinue => a.rl[k] = b.rl[k]
        /\ mode = RollingNext =>
              /\ a.rl[k].queue = Append(b.rl[k].queue, o)
              /\ a.rl[k].position = b.rl[k].position
              /\ a.objs[o].rolling.mode = RollingContinue
        /\ \A j \in Layers \ {k} : a.rl[j] = b.rl[j]

(* C23: when the loop processes a newly received frame, layer by layer:    *)
(* mode Stop empties slot L.id; Start makes its queue exactly [L] with     *)
(* position 0; Continue leaves the slot as it is; Next appends L at the    *)
(* tail, leaves position (and head) alone and turns L's mode to Continue;  *)
(* the other slots are untouched by L. A slot that no layer of the frame   *)
(* names is the same after the iteration.                                  *)
C23_NewFramePerMode ==
    [][LoopRecv =>
          LET ids == FrameIds(NextSender(sendq))
              st0 == AtNewSet(WithFrame(NextSender(sendq)))
          IN  /\ \A i \in 1..Len(ids) :
                    SlotEffect(ProcessNewSet(st0, SubSeq(ids, 1, i - 1), 1),
                               ProcessNewSet(st0, SubSeq(ids, 1, i), 1), ids[i])
              /\ \A k \in Layers :
                    (/\ panicked' = NoPanic
                     /\ \A i \in 1..Len(ids) : st0.objs[ids[i]].id # k)
                        => rollingLayers'[k] = rollingLayers[k]]_vars

(* C23 witness: a frame has been processed whose Next layer was appended   *)
(* behind the banner that was rolling, which rolls on from where it was    *)
C23_Witness ==
    /\ panicked = NoPanic
    /\ Len(received) = 2
    /\ Len(currentSet) = 1
    /\ \E k \in Layers :
          /\ Len(rollingLayers[k].queue) = 2
          /\ rollingLayers[k].queue[2] = currentSet[1]
          /\ rollingLayers[k].position > 1

(* the loop's state when the second pass of an iteration starts *)
AtAdvance(newSet, set, O) ==
    IF newSet THEN ProcessNewSet(AtNewSet(O), set, 1)
    ELSE [objs |-> O, rl |-> rollingLayers, has |-> hasRollingLayers, panic |-> FALSE]

(* one advance step of inhabited slot k, from b to a *)
AdvanceEffect(b, a, k) ==
    LET p == b.rl[k].position
        h == b.objs[b.rl[k].queue[1]]
        width == h.image.max - h.image.min
        swap == p + displayWidth < width /\ p = h.rolling.last /\ Len(b.rl[k].queue) > 1
    IN  /\ a.rl[k].position =
              IF p + displayWidth >= width THEN displayWidth - 1 + h.rolling.entry
              ELSE IF swap THEN 0
              ELSE p + 1
        /\ a.rl[k].queue = IF swap THEN Tail(b.rl[k].queue) ELSE b.rl[k].queue
        /\ a.objs[a.rl[k].queue[1]].origin = a.rl[k].position

(* the advance steps of an iteration over the list set, started in state st *)
AdvancesAsClaimed(st, set) ==
    \A i \in 1..Len(set) :
        LET b == AdvanceSet(st, SubSeq(set, 1, i - 1), 1)
            a == AdvanceSet(st, SubSeq(set, 1, i), 1)
        IN  (/\ st.has
             /\ ~b.panic
             /\ b.objs[set[i]].rolling.mode = RollingContinue
             /\ b.rl[b.objs[set[i]].id].queue # <<>>)
                => AdvanceEffect(b, a, b.objs[set[i]].id)

C25_PreparedRollingLayerRecordsLast ==
    \A s \in Streams : \A i \in 1..Len(frame[s]) :
        frame[s][i].rolling.mode # RollingStop =>
            /\ frame[s][i].origin = 0
            /\ frame[s][i].rolling.last
                  = (frame[s][i].image.max - frame[s][i].image.min) - 2 * displayWidth + 1

(* C26: after the loop has processed a newly received frame,               *)
(* hasRollingLayers is true exactly if some slot has a nonempty queue.     *)
C26_HasRollingIffInhabited ==
    [][(LoopRecv /\ panicked' = NoPanic) =>
          (hasRollingLayers' <=> \E k \in Layers : rollingLayers'[k].queue # <<>>)]_vars

(* C27: whatever frames and ticks the loop has seen, the queue of every    *)
(* slot holds at most N (maxLayers) prepared layers.                       *)
C27_SlotQueuesBounded ==
    \A k \in Layers : Len(rollingLayers[k].queue) <= maxLayers

(* the banner's body as the specification defines it: the width of the     *)
(* layer's canvas less entry and separator                                 *)
BodyOfWidth == (raw.max - raw.min) - layers[0].rolling.entry - layers[0].rolling.separator

PeriodOfWidth == BodyOfWidth + layers[0].rolling.separator

(* where the tiled region of the extended canvas starts, and its length *)
TiledFrom == displayWidth - 1 + layers[0].rolling.entry

TiledLen == Extended.max - 2 * (displayWidth - 1) - layers[0].rolling.entry

RunOnEqualsTiledStart ==
    \A j \in 0..(displayWidth - 2) :
        ColAt(Extended, Extended.max - (displayWidth - 1) + j) = ColAt(Extended, TiledFrom + j)

TiledIsPeriodic ==
    \A x \in TiledFrom..(TiledFrom + TiledLen - 1 - PeriodOfWidth) :
        ColAt(Extended, x) = ColAt(Extended, x + PeriodOfWidth)

WrapShiftsByOne ==
    \A j \in 0..(displayWidth - 2) :
        Window(Extended, TiledFrom)[j] = Window(Extended, Extended.max - displayWidth)[j + 1]

(* C28: in the extended canvas of a rolling banner with body + separator   *)
(* >= 1 the last W-1 columns equal the first W-1 columns of the tiled      *)
(* region, the tiled region is periodic with period body + separator, and  *)
(* the window at position W-1+entry is the window at position width-W      *)
(* shifted left by one column.                                             *)
C28_RunOnMakesWrapSeamless ==
    (BannerRolls /\ PeriodOfWidth >= 1) =>
        /\ RunOnEqualsTiledStart
        /\ TiledIsPeriodic
        /\ WrapShiftsByOne

(* the least n >= 0 such that body + n*(body+separator) >= W *)
LeastTiles ==
    CHOOSE n \in 0..(displayWidth + layers[0].rolling.separator) :
        /\ BodyOfWidth + n * PeriodOfWidth >= displayWidth
        /\ \A m \in 0..(n - 1) : BodyOfWidth + m * PeriodOfWidth < displayWidth

TotalOfWidth ==
    2 * (displayWidth - 1) + layers[0].rolling.entry + (LeastTiles + 1) * PeriodOfWidth

(* C29: with body = width of the banner's canvas - entry - separator       *)
(* (wherever the canvas' left edge is), body + separator >= 1 and nBody    *)
(* the least n >= 0 with body + n*(body+separator) >= W, the extended      *)
(* canvas is exactly 2*(W-1) + entry + (nBody+1)*(body+separator) columns  *)
(* wide, starting at 0, and its columns [0, W-1) are blank.                *)
C29_ExtendedCanvasWidth ==
    (BannerRolls /\ PeriodOfWidth >= 1) =>
        /\ objs[currentSet[1]].image.min = 0
        /\ objs[currentSet[1]].image.max = TotalOfWidth
        /\ Extended.min = 0 /\ Extended.max = TotalOfWidth
        /\ \A x \in 0..(displayWidth - 2) : ColAt(Extended, x) = Blank

(* an iteration whose second pass starts in state b and ends in the next   *)
(* state: every slot named by a layer of set that is rolling (mode         *)
(* Continue when the pass starts) has made one advance step, the others    *)
(* are as they were                                                        *)
OneStepEach(b, set) ==
    LET a == [objs |-> objs', rl |-> rollingLayers']
        rolls(k) == \E i \in 1..Len(set) :
                        /\ b.objs[set[i]].rolling.mode = RollingContinue
                        /\ b.objs[set[i]].id = k
    IN  b.has => \A k \in Layers :
                    IF rolls(k) THEN AdvanceEffect(b, a, k) ELSE a.rl[k] = b.rl[k]

(* C30: in each loop iteration every rolling layer of the current frame    *)
(* moves by exactly one advance step (one column, one wrap jump or one     *)
(* banner swap), however many rolling layers the frame holds: no slot is   *)
(* advanced more than once in an iteration.                                *)
C30_OneAdvancePerIteration ==
    [][/\ (LoopTick /\ panicked' = NoPanic) =>
             OneStepEach(AtAdvance(FALSE, currentSet, objs), currentSet)
       /\ (LoopRecv /\ panicked' = NoPanic) =>
             OneStepEach(AtAdvance(TRUE, FrameIds(NextSender(sendq)),
                                   WithFrame(NextSender(sendq))),
                         FrameIds(NextSender(sendq)))]_vars

(* a rectangle contains another: image.Rectangle.In *)
RectIn(r, s) == RectEmpty(r) \/ (s.min <= r.min /\ r.max <= s.max)

(* C31: for every primitive other than init and clear, the bounds of the   *)
(* target layer's canvas after the primitive contain its bounds before it, *)
(* every pixel the primitive does not paint keeps its colour at the same   *)
(* coordinate, and the same union-resize applied a second time changes     *)
(* neither bounds nor pixels.                                              *)
C31_CanvasGrowsAndKeepsPixels ==
    [][(pc[1] = "prim" /\ pc'[1] = "recv" /\ cur[1].kind \notin {"Init", "Clear"}) =>
          /\ RectIn(Bounds(raw), Bounds(raw'))
          /\ RectIn(Bounds(layers[cur[1].layer].image), Bounds(layers'[cur[1].layer].image))
          /\ \A x \in (Min2(raw.min, raw'.min) - 1)..Max2(raw.max, raw'.max) :
                x \notin PaintedColumns(cur[1]) => ColAt(raw', x) = ColAt(raw, x)
          /\ resizeColumns(raw', ResizeRect(cur[1])) = raw'
          /\ resizeImage(layers'[cur[1].layer].image, ResizeRect(cur[1]))
                = layers'[cur[1].layer].image]_vars

(* C31 witness: a second primitive has enlarged the canvas, and the pixel  *)
(* the first one painted is where it was, with the colour it had           *)
C31_Witness ==
    /\ pc[1] = "recv"
    /\ nreq = 2
    /\ raw.max - raw.min >= 3
    /\ ColAt(raw, raw.min) = 2
    /\ ColAt(raw, raw.max - 1) = 3
    /\ Bounds(layers[0].image) = Bounds(raw)

C33_NoHeadOfEmptyQueue ==
    [][/\ LoopRecv =>
             ~Iteration(TRUE, FrameIds(NextSender(sendq)), WithFrame(NextSender(sendq)),
                        rollingLayers, hasRollingLayers).panic
       /\ LoopTick => ~Iteration(FALSE, currentSet, objs, rollingLayers,
                                  hasRollingLayers).panic]_vars

(* what the loop does to the slot a Start or a Next layer o names, from b to a *)
ReappliedEffect(b, a, o) ==
    LET k == b.objs[o].id
    IN  /\ b.objs[o].rolling.mode = RollingStart =>
              a.rl[k] = [queue |-> <<o>>, position |-> 0]
        /\ b.objs[o].rolling.mode = RollingNext =>
              /\ a.rl[k].queue = Append(b.rl[k].queue, o)
              /\ Len(a.rl[k].queue) = Len(b.rl[k].queue) + 1

(* C34: the rolling mode AutoRoll stored in a layer persists and every     *)
(* later frame applies it again: a frame built while active layer k's      *)
(* stored mode is m, by whatever stream, holds a prepared copy of k in     *)
(* mode m; and when the loop receives a frame, a copy in mode Start resets *)
(* the slot it names to the queue holding just that copy, at position 0,   *)
(* and a copy in mode Next is appended as one more element to its slot's   *)
(* queue.                                                                  *)
C34_StoredModeIsReapplied ==
    [][/\ \A s \in Streams :
             (RecvEOF(s) /\ pc'[s] = "send") =>
                 \A k \in Layers :
                     activeLayers[k] =>
                         \E i \in 1..Len(frame'[s]) :
                             /\ frame'[s][i].from = k
                             /\ frame'[s][i].rolling.mode = layers[k].rolling.mode
       /\ LoopRecv =>
             LET ids == FrameIds(NextSender(sendq))
                 st0 == AtNewSet(WithFrame(NextSender(sendq)))
             IN  /\ \A i \in 1..Len(ids) :
                       ReappliedEffect(ProcessNewSet(st0, SubSeq(ids, 1, i - 1), 1),
                                       ProcessNewSet(st0, SubSeq(ids, 1, i), 1), ids[i])
                 /\ (/\ panicked' = NoPanic
                      /\ Len(ids) = 1
                      /\ st0.objs[ids[1]].rolling.mode = RollingStart)
                        => rollingLayers'[st0.objs[ids[1]].id]
                               = [queue |-> <<ids[1]>>, position |-> 0]]_vars

(* C34 witness: one AutoRoll{Next} request was sent in all, two streams    *)
(* have ended and the loop has received both frames: the slot holds the    *)
(* copy of each frame, that of the stream that sent no request included    *)
C34_Witness ==
    /\ panicked = NoPanic
    /\ nreq = 1
    /\ Len(received) = 2
    /\ layers[0].rolling.mode = RollingNext
    /\ rollingLayers[0].queue = <<<<received[1], 1>>, <<received[2], 1>>>>

(* C35: every stream that has reached end of stream with no latched error *)
(* and is handing its frame to the loop eventually completes the hand-off  *)
(* and sends its response, however many streams are sending and whether or *)
(* not a banner is rolling.                                                *)
C35_EndedStreamsGetResponse ==
    \A s \in Streams : (pc[s] = "send") ~> (response[s] # <<>>)

=============================================================================
